---- MODULE Spec2Model ----
(***************************************************************************)
(* A model of the retrieval-augmented answer pipeline of rag-backend:      *)
(*   - DocumentService: upload_document, _process_document,                *)
(*     _split_into_chunks, _clean_text, delete_document                    *)
(*                                         (app/services/document_service) *)
(*   - VectorService: add_document_chunks, similarity_search               *)
(*                                         (app/services/vector_service)   *)
(*   - LMStudioService.generate_response / generate_streaming_response     *)
(*                                         (app/services/llm_service)      *)
(*   - RAGService: query, stream_query, process_document_for_rag           *)
(*                                         (app/services/rag_service)      *)
(*                                                                         *)
(* Seven specifications share the module:                                  *)
(*   Spec       one call of RAGService.query or RAGService.stream_query    *)
(*   LiveSpec   Spec with the closing of a dropped completion stream       *)
(*   ChunkSpec  one call of DocumentService._split_into_chunks             *)
(*   WindowSpec the same call on texts longer than the boundary window     *)
(*   CleanSpec  DocumentService._clean_text applied twice                  *)
(*   DocSpec    upload, processing, indexing and deletion of a document    *)
(*   AddSpec    two calls of VectorService.add_document_chunks             *)
(* Text is a sequence of one-character strings; positions are 0-based as   *)
(* in the Python source.                                                   *)
(***************************************************************************)
EXTENDS Integers, Sequences, FiniteSets, TLC

VARIABLES
    \* ---- DocumentService._split_into_chunks ----
    text,           \* parameter text
    chunk_size,     \* parameter chunk_size
    chunk_overlap,  \* parameter chunk_overlap
    page,           \* parameter page (NoPage models None)
    start,          \* local start
    chunk_index,    \* local chunk_index
    chunks,         \* local chunks (the list returned)
    cpc,            \* position: "idle" | "loop" | "returned"
    iters,          \* loop iterations executed so far
    slices,         \* <<start, end>> of each iteration, in order
    \* ---- RAGService.query / stream_query ----
    op,             \* which call runs: "none" | "query" | "stream"
    pc,             \* position inside the call
    query,          \* parameter query
    collection,     \* parameter collection
    max_sources,    \* parameter max_sources
    index,          \* the Retrieval Index: collection name -> stored items
    searchOutcome,  \* how similarity_search ended
    relevant,       \* local relevant_chunks
    events,         \* the events stream_query has yielded, in order
    response,       \* the ChatResponse query returned (NoResponse before)
    delivered,      \* fragments generate_streaming_response has yielded
    gpc,            \* generate_streaming_response: "new" | "open" |
                    \* "error_yielded" | "ended" | "released"
    nread,          \* lines read from the completion stream
    attempts,       \* generate_response attempts made (tenacity)
    llmError,       \* what generate_response raised ("none": nothing)
    prompt,         \* the messages handed to the Answer Generator
    llmInvoked,     \* calls made into the Answer Generator
    statusChecks,   \* check_server_status calls made
    \* ---- DocumentService._clean_text ----
    raw,            \* the text handed to _clean_text
    once,           \* _clean_text(raw)
    twice,          \* _clean_text(_clean_text(raw))
    kpc,            \* position: "idle" | "new" | "once" | "twice"
    \* ---- DocumentService and RAGService.process_document_for_rag ----
    settings,       \* settings.chunk_size and settings.chunk_overlap
    documents,      \* DocumentService.documents: id -> DocumentInfo
    document_chunks,\* DocumentService.document_chunks: id -> chunk list
    task,           \* the _process_document task of each document
    running,        \* the task that holds the event loop ("none": none)
    ragCall,        \* the process_document_for_rag call of each document
    usedIds,        \* document ids handed out so far
    \* ---- VectorService.add_document_chunks ----
    calls,          \* the calls of add_document_chunks under way
    uuids           \* uuid4 values drawn so far

chunkVars == <<text, chunk_size, chunk_overlap, page, start, chunk_index,
               chunks, cpc, iters, slices>>

ragVars == <<op, pc, query, collection, max_sources, index, searchOutcome, relevant,
             events, response, delivered, gpc, nread, attempts, llmError,
             prompt, llmInvoked,
                   statusChecks>>

cleanVars == <<raw, once, twice, kpc>>

docVars == <<settings, documents, document_chunks, task, running, ragCall,
             usedIds>>

addVars == <<calls, uuids>>

vars == <<chunkVars, ragVars, cleanVars, docVars, addVars>>

\* What the actions of one part of the model leave alone.
notChunkVars == <<ragVars, cleanVars, docVars, addVars>>

notRagVars == <<chunkVars, cleanVars, docVars, addVars>>

notCleanVars == <<chunkVars, ragVars, docVars, addVars>>

\* The state of query and stream_query but for the index.
ragLocals == <<op, pc, query, collection, max_sources, searchOutcome,
               relevant, events, response, delivered, gpc, nread, attempts,
               llmError, prompt, llmInvoked,
                   statusChecks>>

----------------------------------------------------------------------------
(* Bounds of the model *)

MaxTextLen == 4     \* longest text handed to the chunker
MaxChunkSize == 3   \* largest chunk_size (and chunk_overlap) tried
MaxIters == 6       \* loop iterations followed before the model stops
MaxChunks == 2      \* most items stored in a collection
MaxLines == 3       \* most lines read from one completion stream
MaxRawLen == 4      \* longest text handed to _clean_text
MaxPages == 2       \* most pages of an uploaded PDF

----------------------------------------------------------------------------
(* Python helpers *)

Max2(a, b) == IF a >= b THEN a ELSE b

Min2(a, b) == IF a <= b THEN a ELSE b

SetMax(S) == CHOOSE x \in S : \A y \in S : y <= x

\* Python's normalisation of a slice bound i against a string of length n.
SliceIdx(i, n) == IF i < 0 THEN Max2(i + n, 0) ELSE Min2(i, n)

\* text[a:b]
Slice(t, a, b) ==
    LET lo == SliceIdx(a, Len(t))
        hi == SliceIdx(b, Len(t))
    IN  IF lo >= hi THEN <<>> ELSE SubSeq(t, lo + 1, hi)

\* text.rfind(ch, a, b) for a one-character ch: highest 0-based position in
\* the slice bounds, or -1.
RFind(t, ch, a, b) ==
    LET lo == SliceIdx(a, Len(t))
        hi == SliceIdx(b, Len(t))
        hits == {i \in lo..(hi - 1) : t[i + 1] = ch}
    IN  IF hits = {} THEN -1 ELSE SetMax(hits)

\* Characters are one-element strings; "NUL" stands for U+0000 and "NEL"
\* for U+0085.  Whitespace is what str.strip and str.split remove.
Whitespace == {" ", "\n", "\t", "\r", "NEL"}

RECURSIVE LStrip(_)
LStrip(s) ==
    IF s = <<>> THEN <<>>
    ELSE IF Head(s) \in Whitespace THEN LStrip(Tail(s)) ELSE s

RECURSIVE RStrip(_)
RStrip(s) ==
    IF s = <<>> THEN <<>>
    ELSE IF s[Len(s)] \in Whitespace THEN RStrip(SubSeq(s, 1, Len(s) - 1))
    ELSE s

\* A chunk text taken as it was sliced.
NoStrip(s) == s

\* str.strip()
Strip(s) == RStrip(LStrip(s))

\* str.startswith(p)
StartsWith(s, p) == Len(s) >= Len(p) /\ SubSeq(s, 1, Len(p)) = p

----------------------------------------------------------------------------
(* DocumentService._split_into_chunks *)

BoundaryWindow == 100

NoPage == 0

Alphabet == {"a", " ", ".", "!", "?"}

Texts == UNION {[1..n -> Alphabet] : n \in 0..MaxTextLen}

\* The condition of line 200 with the end of the text included.
ChunkEndInclusive(t, s, size) ==
    LET end == s + size
    IN  IF end <= Len(t)
        THEN LET sentence_end == Max2(RFind(t, ".", end - BoundaryWindow, end),
                                      Max2(RFind(t, "!", end - BoundaryWindow, end),
                                           RFind(t, "?", end - BoundaryWindow, end)))
             IN  IF sentence_end > s THEN sentence_end + 1 ELSE end
        ELSE end

\* The search for a terminator made in the whole text before end.
ChunkEndWholePrefix(t, s, size) ==
    LET end == s + size
    IN  IF end < Len(t)
        THEN LET sentence_end == Max2(RFind(t, ".", 0, end),
                                      Max2(RFind(t, "!", 0, end),
                                           RFind(t, "?", 0, end)))
             IN  IF sentence_end > s THEN sentence_end + 1 ELSE end
        ELSE end

\* lines 197-208: the end of the chunk that starts at s.
ChunkEnd(t, s, size) ==
    LET end == s + size
    IN  IF end < Len(t)
        THEN LET last_period == RFind(t, ".", end - BoundaryWindow, end)
                 last_exclamation == RFind(t, "!", end - BoundaryWindow, end)
                 last_question == RFind(t, "?", end - BoundaryWindow, end)
                 sentence_end == Max2(last_period,
                                      Max2(last_exclamation, last_question))
             IN  IF sentence_end > s THEN sentence_end + 1 ELSE end
        ELSE end

\* A cursor that moves forward by the overlap instead of back.
NextStartForward(t, end, overlap) ==
    IF end < Len(t) THEN end + overlap ELSE end

\* line 229: the next value of start.
NextStart(t, end, overlap) == IF end < Len(t) THEN end - overlap ELSE end

\* lines 214-225: the dict appended for a non-empty chunk_text.
MakeChunk(document_id, idx, chunk_text, filename, pg, s, end) ==
    [document_id |-> document_id,
     chunk_index |-> idx,
     content |-> chunk_text,
     filename |-> filename,
     page |-> pg,
     metadata |-> [start_pos |-> s, end_pos |-> end,
                   length |-> Len(chunk_text)]]

\* _split_into_chunks from the cursor s on, lines 195-231; fuel bounds the
\* iterations followed.
RECURSIVE SplitLoop(_, _, _, _, _, _, _, _, _, _)
SplitLoop(t, document_id, filename, pg, size, overlap, s, idx, acc, fuel) ==
    IF s >= Len(t) \/ fuel = 0 THEN acc
    ELSE LET end == ChunkEnd(t, s, size)
             chunk_text == Strip(Slice(t, s, end))
             next == NextStart(t, end, overlap)
         IN  IF chunk_text # <<>>
             THEN SplitLoop(t, document_id, filename, pg, size, overlap,
                            next, idx + 1,
                            Append(acc, MakeChunk(document_id, idx,
                                                  chunk_text, filename, pg,
                                                  s, end)),
                            fuel - 1)
             ELSE SplitLoop(t, document_id, filename, pg, size, overlap,
                            next, idx, acc, fuel - 1)

\* _split_into_chunks, lines 180-231.
SplitIntoChunks(t, document_id, filename, pg, size, overlap) ==
    SplitLoop(t, document_id, filename, pg, size, overlap, 0, 0, <<>>,
              MaxIters)

ChunkSizeDefault == 800

ChunkOverlapDefault == 200

\* settings as deployed (core/config.py).
DefaultSettings ==
    [chunk_size |-> ChunkSizeDefault, chunk_overlap |-> ChunkOverlapDefault]

\* The DocumentInfo of upload_document, lines 45-54, with the fields
\* processing changes.
DocInfo(filename, status, chunks_count) ==
    [filename |-> filename, collection |-> "default", status |-> status,
     chunks_count |-> chunks_count]

NoFile == [ext |-> "none", pages |-> <<>>]

NoTask == [pc |-> "none", file |-> NoFile, pages |-> <<>>, chunks |-> <<>>,
           raised |-> FALSE]

NoRagCall == [pc |-> "none", retry_count |-> 0, seen |-> "none",
              result |-> "none"]

\* The ids upload_document can draw.
DocIds == {"d1"}

\* A document processed earlier: one chunk, status completed.
Registry0 == [d \in {"d0"} |-> DocInfo("f.txt", "completed", 1)]

Chunks0(cfg) ==
    [d \in {"d0"} |->
        SplitIntoChunks(<<"a">>, d, "f.txt", NoPage, cfg.chunk_size,
                        cfg.chunk_overlap)]

\* Nothing is being uploaded or processed.
DocIdle ==
    /\ settings = DefaultSettings
    /\ documents = Registry0
    /\ document_chunks = Chunks0(settings)
    /\ task = [d \in DocIds |-> NoTask]
    /\ running = "none"
    /\ ragCall = [d \in DocIds |-> NoRagCall]
    /\ usedIds = {"d0"}

CallIds == {1, 2}

NoCall == [pc |-> "none", name |-> "default", chunks |-> <<>>,
           batch |-> <<>>, result |-> "none"]

\* No call of add_document_chunks is under way.
AddIdle ==
    /\ calls = [c \in CallIds |-> NoCall]
    /\ uuids = 0

\* No call of query or stream_query is running.
RagQuiet ==
    /\ op = "none"
    /\ pc = "idle"
    /\ query = <<>>
    /\ collection = "default"
    /\ max_sources = 1
    /\ searchOutcome = "none"
    /\ relevant = <<>>
    /\ events = <<>>
    /\ response = [kind |-> "none"]
    /\ delivered = <<>>
    /\ gpc = "new"
    /\ nread = 0
    /\ attempts = 0
    /\ llmError = "none"
    /\ prompt = <<>>
    /\ llmInvoked = 0
    /\ statusChecks = 0

RagIdle ==
    /\ RagQuiet
    /\ index = [c \in {"default"} |-> <<>>]

\* No call of _clean_text is running.
CleanIdle ==
    /\ raw = <<>>
    /\ once = <<>>
    /\ twice = <<>>
    /\ kpc = "idle"

\* No call of _split_into_chunks is running.
ChunkIdle ==
    /\ text = <<>>
    /\ chunk_size = 1
    /\ chunk_overlap = 0
    /\ page = NoPage
    /\ start = 0
    /\ chunk_index = 0
    /\ chunks = <<>>
    /\ cpc = "idle"
    /\ iters = 0
    /\ slices = <<>>

\* The call: any text, any chunk_size >= 1, any chunk_overlap >= 0 (the
\* source checks neither), lines 191-193.
ChunkInit ==
    /\ text \in Texts
    /\ chunk_size \in 1..MaxChunkSize
    /\ chunk_overlap \in 0..MaxChunkSize
    /\ page \in {NoPage, 1}
    /\ start = 0
    /\ chunk_index = 0
    /\ chunks = <<>>
    /\ cpc = "loop"
    /\ iters = 0
    /\ slices = <<>>
    /\ RagIdle
    /\ CleanIdle
    /\ DocIdle
    /\ AddIdle

\* One iteration of the while loop, lines 195-229.
ChunkIterate ==
    /\ cpc = "loop"
    /\ start < Len(text)
    /\ iters < MaxIters
    /\ LET end == ChunkEnd(text, start, chunk_size)
           chunk_text == Strip(Slice(text, start, end))
       IN  /\ IF chunk_text # <<>>
              THEN /\ chunks' = Append(chunks,
                                   MakeChunk("d1", chunk_index, chunk_text,
                                             "f.txt", page, start, end))
                   /\ chunk_index' = chunk_index + 1
              ELSE UNCHANGED <<chunks, chunk_index>>
           /\ start' = NextStart(text, end, chunk_overlap)
           /\ slices' = Append(slices, <<start, end>>)
    /\ iters' = iters + 1
    /\ UNCHANGED <<text, chunk_size, chunk_overlap, page, cpc>>
    /\ UNCHANGED notChunkVars

\* The loop condition fails: return chunks, line 231.
ChunkReturn ==
    /\ cpc = "loop"
    /\ start >= Len(text)
    /\ cpc' = "returned"
    /\ UNCHANGED <<text, chunk_size, chunk_overlap, page, start, chunk_index,
                   chunks, iters, slices>>
    /\ UNCHANGED notChunkVars

ChunkNext == ChunkIterate \/ ChunkReturn

ChunkSpec == ChunkInit /\ [][ChunkNext]_vars

\* Texts long enough for the 100-character window and the deployed chunk
\* size to matter: n letters with a full stop at the positions of P.
TextWith(n, P) == [i \in 1..n |-> IF (i - 1) \in P THEN "." ELSE "a"]

\* Texts around a chunk size smaller than the window.
ShortWindowTexts ==
    {TextWith(n, {q}) : n \in {60, 160}, q \in {5, 20, 45, 49, 50, 95}}

StopPositions == {699, 700, 750, 799, 800, 1200, 1201, 1300}

\* Texts of more than one chunk under the deployed configuration.
DeployedTexts ==
    {TextWith(n, P) : n \in {801, 1500, 1700},
                      P \in {Q \in SUBSET StopPositions : Cardinality(Q) <= 2}}

SmallWindowSettings == [chunk_size |-> 50, chunk_overlap |-> 10]

\* One call of _split_into_chunks on a long text, with the deployed
\* settings (config.py lines 27-28) or with a chunk size below the window.
WindowInit ==
    /\ \E cfg \in {DefaultSettings, SmallWindowSettings} :
          /\ chunk_size = cfg.chunk_size
          /\ chunk_overlap = cfg.chunk_overlap
          /\ text \in IF cfg = DefaultSettings THEN DeployedTexts
                       ELSE ShortWindowTexts
    /\ page = NoPage
    /\ start = 0
    /\ chunk_index = 0
    /\ chunks = <<>>
    /\ cpc = "loop"
    /\ iters = 0
    /\ slices = <<>>
    /\ RagIdle
    /\ CleanIdle
    /\ DocIdle
    /\ AddIdle

WindowSpec == WindowInit /\ [][ChunkNext]_vars

----------------------------------------------------------------------------
(* DocumentService._clean_text *)

RawAlphabet == {"a", " ", "\n", "\t", "\r", "NUL", "NEL"}

RawTexts == UNION {[1..n -> RawAlphabet] : n \in 0..MaxRawLen}

\* The characters of the alphabet with ord(ch) < 32.
ControlChars == {"NUL", "\n", "\t", "\r"}

\* The line boundaries of str.splitlines.
LineBreaks == {"\n", "\r", "NEL"}

\* sep.join(parts)
RECURSIVE Join(_, _)
Join(sep, parts) ==
    IF parts = <<>> THEN <<>>
    ELSE IF Len(parts) = 1 THEN parts[1]
    ELSE parts[1] \o <<sep>> \o Join(sep, Tail(parts))

\* str.splitlines(): a line ends at each line boundary ("\r\n" is one
\* boundary); what follows the last boundary is a line unless it is empty.
RECURSIVE SplitLinesFrom(_, _)
SplitLinesFrom(s, cur) ==
    IF s = <<>> THEN (IF cur = <<>> THEN <<>> ELSE <<cur>>)
    ELSE IF Head(s) \in LineBreaks
    THEN LET rest == IF Head(s) = "\r" /\ Len(s) >= 2 /\ s[2] = "\n"
                     THEN Tail(Tail(s)) ELSE Tail(s)
         IN  <<cur>> \o SplitLinesFrom(rest, <<>>)
    ELSE SplitLinesFrom(Tail(s), Append(cur, Head(s)))

SplitLines(s) == SplitLinesFrom(s, <<>>)

\* str.split(): the maximal runs of characters that are not whitespace.
RECURSIVE SplitFrom(_, _)
SplitFrom(s, cur) ==
    IF s = <<>> THEN (IF cur = <<>> THEN <<>> ELSE <<cur>>)
    ELSE IF Head(s) \in Whitespace
    THEN (IF cur = <<>> THEN <<>> ELSE <<cur>>) \o SplitFrom(Tail(s), <<>>)
    ELSE SplitFrom(Tail(s), Append(cur, Head(s)))

Split(s) == SplitFrom(s, <<>>)

\* line 238: text.replace('\x00', ' ')
ReplaceNul(t) == [i \in 1..Len(t) |-> IF t[i] = "NUL" THEN " " ELSE t[i]]

\* line 240: every control character but "\n" and "\t" becomes a space.
ReplaceControl(t) ==
    [i \in 1..Len(t) |->
        IF t[i] \in {"\n", "\t"} \/ t[i] \notin ControlChars
        THEN t[i] ELSE " "]

\* lines 242-243: the words of each line joined by one space, the
\* non-empty lines joined by "\n".
NormalizeLines(cleaned) ==
    LET ls == SplitLines(cleaned)
        lines == [i \in 1..Len(ls) |-> Join(" ", Split(ls[i]))]
    IN  Join("\n", SelectSeq(lines, LAMBDA line : line # <<>>))

\* The steps of _clean_text in the other order: lines are normalised
\* before the control characters are replaced.
CleanTextReplacesLast(t) ==
    IF t = <<>> THEN <<>>
    ELSE ReplaceControl(ReplaceNul(NormalizeLines(t)))

\* _clean_text, lines 233-243.
CleanText(t) ==
    IF t = <<>> THEN <<>>
    ELSE NormalizeLines(ReplaceControl(ReplaceNul(t)))

CleanInit ==
    /\ raw \in RawTexts
    /\ once = <<>>
    /\ twice = <<>>
    /\ kpc = "new"
    /\ ChunkIdle
    /\ RagIdle
    /\ DocIdle
    /\ AddIdle

\* clean = self._clean_text(text)
CleanFirst ==
    /\ kpc = "new"
    /\ once' = CleanText(raw)
    /\ kpc' = "once"
    /\ UNCHANGED <<raw, twice>>
    /\ UNCHANGED notCleanVars

\* self._clean_text(clean)
CleanSecond ==
    /\ kpc = "once"
    /\ twice' = CleanText(once)
    /\ kpc' = "twice"
    /\ UNCHANGED <<raw, once>>
    /\ UNCHANGED notCleanVars

CleanNext == CleanFirst \/ CleanSecond

CleanSpec == CleanInit /\ [][CleanNext]_vars

----------------------------------------------------------------------------
(* VectorService.similarity_search *)

\* lines 54-63: what add_document_chunks prepares for one chunk: the id,
\* the document text and the metadata, the chunk's own metadata merged in.
StoreRecord(chunk_id, chunk) ==
    [id |-> chunk_id,
     document |-> chunk.content,
     metadata |-> [document_id |-> chunk.document_id,
                   chunk_index |-> chunk.chunk_index,
                   filename |-> chunk.filename,
                   page |-> chunk.page,
                   start_pos |-> chunk.metadata.start_pos,
                   end_pos |-> chunk.metadata.end_pos,
                   length |-> chunk.metadata.length]]

\* The n-th item of a collection filled earlier: its text is n + 1
\* characters long.
StoredItem(n) ==
    LET content == <<"t">> \o [i \in 1..n |-> "x"]
    IN  StoreRecord(n, MakeChunk("d1", n - 1, content, "f.txt", NoPage,
                                 0, Len(content)))

\* create_collection, lines 23-37: an existing collection is left as it is.
CreateCollection(idx, name) ==
    IF name \in DOMAIN idx THEN idx ELSE idx @@ (name :> <<>>)

\* Ids taken from the chunk_index instead of uuid4.
ChunkIdsByIndex(n, drawn) == [i \in 1..n |-> i]

\* line 54: n calls of uuid.uuid4(), drawn values so far being 1..drawn.
ChunkIds(n, drawn) == [i \in 1..n |-> drawn + i]

\* lines 49-63: the ids, documents and metadatas prepared for chunks.
PrepareBatch(chunk_list, drawn) ==
    LET ids == ChunkIds(Len(chunk_list), drawn)
    IN  [i \in 1..Len(chunk_list) |-> StoreRecord(ids[i], chunk_list[i])]

\* collection.add, lines 74-79.
CollectionAdd(idx, name, batch) == [idx EXCEPT ![name] = @ \o batch]

\* A lookup that creates the collection it does not find.
GetOrCreateCollection(idx, name) == CreateCollection(idx, name)

\* line 96: the index after self.client.get_collection(collection_name),
\* which only looks the collection up (a missing one raises).
GetCollection(idx, name) == idx

\* Cosine distances, in units of 1/10000.
Distances == {1234, 1236}

ScoreOne == 10000

\* collection.query(query_embeddings, n_results=k): the k nearest items, or
\* all of them when fewer are stored, nearest first.
QueryResults(items, k) ==
    LET n == Min2(k, Len(items))
    IN  {r \in [1..n -> [item : {items[i] : i \in 1..Len(items)},
                         distance : Distances]] :
            /\ \A i, j \in 1..n : i # j => r[i].item # r[j].item
            /\ \A i \in 1..n : i < n => r[i].distance <= r[i + 1].distance}

\* lines 119-126: the DocumentChunk built from one result row.
ToDocumentChunk(row) ==
    [id |-> row.item.id,
     document_id |-> row.item.metadata.document_id,
     chunk_index |-> row.item.metadata.chunk_index,
     content |-> row.item.document,
     metadata |-> row.item.metadata,
     similarity_score |-> ScoreOne - row.distance]

SearchOutcomes == {"ok", "embed_failed", "query_failed"}

\* similarity_search, lines 95-134: every failure (no such collection, the
\* embedding model raising, the index query raising) is logged and answered
\* with the empty list.
SimilaritySearch(idx, collection_name, outcome, results) ==
    IF collection_name \notin DOMAIN idx THEN <<>>
    ELSE IF outcome = "embed_failed" THEN <<>>
    ELSE IF outcome = "query_failed" THEN <<>>
    ELSE [i \in 1..Len(results) |-> ToDocumentChunk(results[i])]

\* How the search went, for the record: the reason of an empty result.
OutcomeOf(idx, collection_name, outcome) ==
    IF collection_name \notin DOMAIN idx THEN "no_collection" ELSE outcome

----------------------------------------------------------------------------
(* RAGService helpers *)

PreviewLen == 200

\* round(x, 3) of a score held in units of 1/10000 (no score of the model
\* lies halfway between two thousandths).
Round3(x) == ((x + 5) \div 10) * 10

\* lines 266-274: the ChatSource built from one chunk.
SourceEntry(chunk) ==
    [document_id |-> chunk.document_id,
     filename |-> chunk.metadata.filename,
     page |-> chunk.metadata.page,
     content_preview |->
        IF Len(chunk.content) > PreviewLen
        THEN SubSeq(chunk.content, 1, PreviewLen) \o <<"...">>
        ELSE chunk.content,
     similarity_score |-> Round3(chunk.similarity_score)]

\* A source list that names each document once: the first chunk of it.
PrepareSourcesOnePerDocument(cs) ==
    LET firsts == SelectSeq([i \in 1..Len(cs) |-> i],
                            LAMBDA i : \A j \in 1..(i - 1) :
                                cs[j].document_id # cs[i].document_id)
    IN  [k \in 1..Len(firsts) |-> SourceEntry(cs[firsts[k]])]

\* _prepare_sources, lines 262-276: one entry per chunk, in order.
PrepareSources(cs) == [i \in 1..Len(cs) |-> SourceEntry(cs[i])]

\* _prepare_context, lines 215-230: one block per chunk, in order.
PrepareContext(cs) ==
    [i \in 1..Len(cs) |->
        [source |-> i,
         document |-> cs[i].metadata.filename,
         page |-> cs[i].metadata.page,
         content |-> cs[i].content]]

\* _create_rag_prompt, lines 232-260.
CreateRagPrompt(q, context) ==
    <<[role |-> "system", content |-> <<"system_prompt">>],
      [role |-> "user", content |-> <<context, q>>]>>

\* tokens_used is None
NoTokens == -1

FallbackAnswer == <<"I couldn't find any relevant documents to answer your question.">>

StreamFallback == <<"No relevant documents were found to answer this question.">>

ErrorAnswerPrefix == "Przepraszam, wystapil blad podczas przetwarzania pytania: "

\* lines 88-97: the response of query when nothing was retrieved.
FallbackResponse ==
    [kind |-> "response",
     answer |-> FallbackAnswer,
     sources |-> <<>>,
     model_info |-> [model |-> "llama-3.1-8b-instruct", local |-> TRUE,
                     chunks_used |-> 0],
     tokens_used |-> NoTokens]

\* lines 116-127: the response of query after a generated answer.
AnswerResponse(llm_response, cs) ==
    [kind |-> "response",
     answer |-> llm_response.content,
     sources |-> PrepareSources(cs),
     model_info |-> [model |-> llm_response.model, local |-> TRUE,
                     chunks_used |-> Len(cs)],
     tokens_used |-> llm_response.total_tokens]

\* lines 132-139: the response of query's exception handler.
ErrorResponse(e) ==
    [kind |-> "response",
     answer |-> <<ErrorAnswerPrefix, e>>,
     sources |-> <<>>,
     model_info |-> [error |-> e],
     tokens_used |-> NoTokens]

----------------------------------------------------------------------------
(* LMStudioService *)

MaxAttempts == 3

\* The texts a completion can carry.
Replies == {<<"o", "k">>, <<" ", "o", "k", " ">>}

\* One attempt of generate_response, lines 37-73. server_up is the result of
\* check_server_status, reply the outcome of the POST.
AttemptOutcomes ==
    [kind : {"ok"}, text : Replies, total_tokens : {NoTokens, 42}]
    \cup [kind : {"http_error", "bad_format"}]

\* lines 62-66: the dict returned for a well-formed completion.
LlmResponse(reply) ==
    [content |-> Strip(reply.text),
     model |-> "llama-3.1-8b-instruct",
     total_tokens |-> reply.total_tokens]

AttemptSucceeds(server_up, reply) == server_up /\ reply.kind = "ok"

\* What tenacity raises once the last attempt has failed.
RetryError == "RetryError"

ErrPrefix == <<"E", "R", "R", "O", "R", ":">>

\* line 84 and line 120: the error-tagged fragment f"ERROR: {str(e)}".
ErrorFragment(msg) == ErrPrefix \o <<" ", msg>>

\* The text field of one streamed completion chunk.
Fragments ==
    {<<"a">>, <<"b">>, <<>>, ErrPrefix \o <<"x">>, <<"E", "R", "R">>}

\* One line of the completion stream as aiter_lines delivers it.
Lines ==
    [kind : {"data"}, text : Fragments]
    \cup [kind : {"done", "other", "bad_json", "no_choices", "transport_error"}]

----------------------------------------------------------------------------
(* RAGService.query and RAGService.stream_query: one call *)

Queries == {<<"q">>, <<>>}

Collections == {"default", "missing"}

\* The state at the call: the index holds one collection of 0..MaxChunks
\* items; the caller names an operation, a query, a collection and
\* max_sources.
Init ==
    /\ op \in {"query", "stream"}
    /\ pc = "start"
    /\ query \in Queries
    /\ collection \in Collections
    /\ max_sources \in 1..MaxChunks
    /\ \E n \in 0..MaxChunks :
          index = [c \in {"default"} |-> [i \in 1..n |-> StoredItem(i)]]
    /\ searchOutcome = "none"
    /\ relevant = <<>>
    /\ events = <<>>
    /\ response = [kind |-> "none"]
    /\ delivered = <<>>
    /\ gpc = "new"
    /\ nread = 0
    /\ attempts = 0
    /\ llmError = "none"
    /\ prompt = <<>>
    /\ llmInvoked = 0
    /\ statusChecks = 0
    /\ ChunkIdle
    /\ CleanIdle
    /\ DocIdle
    /\ AddIdle

\* ---- query ----

QueryNothingFoundIsNone(found) == FALSE

\* line 87: if not relevant_chunks
QueryNothingFound(found) == found = <<>>

ExceptionPropagates(e) ==
    /\ pc' = "raised"
    /\ UNCHANGED response

\* lines 132-139: the exception handler of query.
QueryHandleException(e) ==
    /\ response' = ErrorResponse(e)
    /\ pc' = "returned"

\* lines 79-110: retrieval, then either the fallback response or the call of
\* generate_response.
QuerySearch ==
    /\ op = "query"
    /\ pc = "start"
    /\ \E outcome \in SearchOutcomes :
       \E results \in QueryResults(IF collection \in DOMAIN index
                                   THEN index[collection] ELSE <<>>,
                                   max_sources) :
          LET found == SimilaritySearch(index, collection, outcome, results)
          IN  /\ searchOutcome' = OutcomeOf(index, collection, outcome)
              /\ relevant' = found
              /\ IF QueryNothingFound(found)
                 THEN /\ response' = FallbackResponse
                      /\ pc' = "returned"
                      /\ UNCHANGED <<prompt, llmInvoked>>
                 ELSE /\ prompt' = CreateRagPrompt(query, PrepareContext(found))
                      /\ llmInvoked' = llmInvoked + 1
                      /\ pc' = "generate"
                      /\ UNCHANGED response
    /\ index' = GetCollection(index, collection)
    /\ UNCHANGED <<op, query, collection, max_sources, events,
                   delivered, gpc, nread, attempts, llmError, statusChecks>>
    /\ UNCHANGED notRagVars

StopAfterFirstAttempt(attempt_number) == TRUE

\* llm_service line 28, stop=stop_after_attempt(3): after the failed attempt
\* number attempt_number, generate_response is given up.
StopAfterAttempt(attempt_number) == attempt_number >= MaxAttempts

\* One attempt of generate_response under @retry(stop_after_attempt(3)),
\* llm_service lines 28-73, and what query does with its result: the answer
\* (lines 112-130), another attempt, or, the last attempt having failed, the
\* exception handler (lines 132-139).
QueryGenerate ==
    /\ op = "query"
    /\ pc = "generate"
    /\ \E server_up \in BOOLEAN, reply \in AttemptOutcomes :
          IF AttemptSucceeds(server_up, reply)
          THEN /\ response' = AnswerResponse(LlmResponse(reply), relevant)
               /\ attempts' = attempts + 1
               /\ pc' = "returned"
               /\ UNCHANGED llmError
          ELSE IF ~StopAfterAttempt(attempts + 1)
          THEN /\ attempts' = attempts + 1
               /\ UNCHANGED <<response, pc, llmError>>
          ELSE /\ attempts' = attempts + 1
               /\ llmError' = RetryError
               /\ QueryHandleException(RetryError)
    /\ statusChecks' = statusChecks + 1
    /\ UNCHANGED <<op, query, collection, max_sources, index, searchOutcome,
                   relevant, events, delivered, gpc, nread, prompt,
                   llmInvoked>>
    /\ UNCHANGED notRagVars

\* ---- stream_query ----

Emit(e) == events' = Append(events, e)

SearchingEvent ==
    [type |-> "sources_search",
     message |-> "Searching for relevant documents..."]

AnswerEvent == [type |-> "answer", content |-> StreamFallback, done |-> TRUE]

SourcesEvent(cs) == [type |-> "sources", sources |-> PrepareSources(cs)]

GeneratingEvent ==
    [type |-> "generation_start", message |-> "Generating answer..."]

TokenEvent(token) == [type |-> "token", content |-> token]

ErrorEvent(token) == [type |-> "error", error |-> token]

DoneEvent == [type |-> "done", done |-> TRUE]

StreamNothingFoundIsNone(found) == FALSE

\* line 161: if not relevant_chunks
StreamNothingFound(found) == found = <<>>

\* line 152: the first event.
StreamStart ==
    /\ op = "stream"
    /\ pc = "start"
    /\ Emit(SearchingEvent)
    /\ pc' = "searching"
    /\ UNCHANGED <<op, query, collection, max_sources, index, searchOutcome,
                   relevant, response, delivered, gpc, nread, attempts,
                   llmError, prompt, llmInvoked,
                   statusChecks>>
    /\ UNCHANGED notRagVars

\* lines 155-174: retrieval, then the fallback event or the sources event.
StreamSearch ==
    /\ op = "stream"
    /\ pc = "searching"
    /\ \E outcome \in SearchOutcomes :
       \E results \in QueryResults(IF collection \in DOMAIN index
                                   THEN index[collection] ELSE <<>>,
                                   max_sources) :
          LET found == SimilaritySearch(index, collection, outcome, results)
          IN  /\ searchOutcome' = OutcomeOf(index, collection, outcome)
              /\ relevant' = found
              /\ IF StreamNothingFound(found)
                 THEN /\ Emit(AnswerEvent)
                      /\ pc' = "answered"
                 ELSE /\ Emit(SourcesEvent(found))
                      /\ pc' = "sources_sent"
    /\ index' = GetCollection(index, collection)
    /\ UNCHANGED <<op, query, collection, max_sources, response,
                   delivered, gpc, nread, attempts, llmError, prompt,
                   llmInvoked,
                   statusChecks>>
    /\ UNCHANGED notRagVars

\* lines 177-180: context, prompt and the generation_start event.
StreamGenerationStart ==
    /\ op = "stream"
    /\ pc = "sources_sent"
    /\ prompt' = CreateRagPrompt(query, PrepareContext(relevant))
    /\ Emit(GeneratingEvent)
    /\ pc' = "generating"
    /\ UNCHANGED <<op, query, collection, max_sources, index, searchOutcome,
                   relevant, response, delivered, gpc, nread, attempts,
                   llmError, llmInvoked,
                   statusChecks>>
    /\ UNCHANGED notRagVars

\* A test for the first three characters only.
IsErrorMarkerShortPrefix(token) == StartsWith(token, <<"E", "R", "R">>)

\* line 188: is the fragment an error marker?
IsErrorMarker(token) == StartsWith(token, ErrPrefix)

\* The loop without its break: the error event, then the next fragment.
OnFragmentNoBreak(token) ==
    /\ Emit(IF IsErrorMarker(token) THEN ErrorEvent(token)
            ELSE TokenEvent(token))
    /\ pc' = "generating"

\* The loop dropping a fragment equal to the one before it.
OnFragmentSkipsRepeat(token) ==
    IF IsErrorMarker(token)
    THEN /\ Emit(ErrorEvent(token))
         /\ pc' = "error_sent"
    ELSE /\ IF delivered # <<>> /\ delivered[Len(delivered)] = token
            THEN UNCHANGED events
            ELSE Emit(TokenEvent(token))
         /\ pc' = "generating"

\* lines 188-192: what stream_query does with one fragment of the generator:
\* an error event and break, or a token event and the next fragment.
OnFragment(token) ==
    IF IsErrorMarker(token)
    THEN /\ Emit(ErrorEvent(token))
         /\ pc' = "error_sent"
    ELSE /\ Emit(TokenEvent(token))
         /\ pc' = "generating"

\* The generator ends without a fragment: the loop of line 183 is over and
\* line 194 yields done.
OnExhausted ==
    /\ Emit(DoneEvent)
    /\ pc' = "done_sent"

\* generate_streaming_response yields a fragment (llm_service lines 84, 114
\* and 120) and stream_query, suspended in its async for, receives it.
GeneratorYields(token) ==
    /\ delivered' = Append(delivered, token)
    /\ OnFragment(token)

\* generate_streaming_response returns: the async for is over.
GeneratorReturns ==
    /\ UNCHANGED delivered
    /\ OnExhausted

\* llm_service lines 83-103: the first step of generate_streaming_response:
\* the status check, and the opening of the completion stream.
LlmOpen ==
    /\ op = "stream"
    /\ pc = "generating"
    /\ gpc = "new"
    /\ llmInvoked' = llmInvoked + 1
    /\ statusChecks' = statusChecks + 1
    /\ \E server_up \in BOOLEAN, connected \in BOOLEAN :
          IF ~server_up
          THEN /\ gpc' = "error_yielded"
               /\ GeneratorYields(ErrorFragment("LM Studio server is not running!"))
          ELSE IF ~connected
          THEN /\ gpc' = "error_yielded"
               /\ GeneratorYields(ErrorFragment("connect error"))
          ELSE /\ gpc' = "open"
               /\ UNCHANGED <<delivered, events, pc>>
    /\ UNCHANGED <<op, query, collection, max_sources, index, searchOutcome,
                   relevant, response, nread, attempts, llmError, prompt>>
    /\ UNCHANGED notRagVars

\* llm_service lines 104-120: one line of the completion stream.
LlmReadLine ==
    /\ op = "stream"
    /\ pc = "generating"
    /\ gpc = "open"
    /\ nread < MaxLines
    /\ nread' = nread + 1
    /\ \E line \in Lines :
          CASE line.kind = "data" /\ line.text # <<>> ->
                  /\ GeneratorYields(line.text)
                  /\ UNCHANGED gpc
            [] line.kind = "data" /\ line.text = <<>> ->
                  UNCHANGED <<delivered, events, pc, gpc>>
            [] line.kind \in {"other", "bad_json"} ->
                  UNCHANGED <<delivered, events, pc, gpc>>
            [] line.kind = "done" ->
                  /\ gpc' = "ended"
                  /\ GeneratorReturns
            [] line.kind = "no_choices" ->
                  /\ gpc' = "error_yielded"
                  /\ GeneratorYields(ErrorFragment("'choices'"))
            [] line.kind = "transport_error" ->
                  /\ gpc' = "error_yielded"
                  /\ GeneratorYields(ErrorFragment("read error"))
    /\ UNCHANGED <<op, query, collection, max_sources, index, searchOutcome,
                   relevant, response, attempts, llmError, prompt,
                   llmInvoked,
                   statusChecks>>
    /\ UNCHANGED notRagVars

\* llm_service line 104: the server closes the stream without a [DONE] line.
LlmEndOfStream ==
    /\ op = "stream"
    /\ pc = "generating"
    /\ gpc = "open"
    /\ gpc' = "ended"
    /\ GeneratorReturns
    /\ UNCHANGED <<op, query, collection, max_sources, index, searchOutcome,
                   relevant, response, nread, attempts, llmError, prompt,
                   llmInvoked,
                   statusChecks>>
    /\ UNCHANGED notRagVars

\* lines 190 and 194: resumed after the error event, the loop breaks and the
\* statement after the loop yields done.
StreamAfterError ==
    /\ op = "stream"
    /\ pc = "error_sent"
    /\ Emit(DoneEvent)
    /\ pc' = "done_sent"
    /\ UNCHANGED <<op, query, collection, max_sources, index, searchOutcome,
                   relevant, response, delivered, gpc, nread, attempts,
                   llmError, prompt, llmInvoked,
                   statusChecks>>
    /\ UNCHANGED notRagVars

\* line 167 and the end of the function: the stream is exhausted.
StreamReturn ==
    /\ op = "stream"
    /\ pc \in {"answered", "done_sent"}
    /\ pc' = "closed"
    /\ UNCHANGED <<op, query, collection, max_sources, index, searchOutcome,
                   relevant, events, response, delivered, gpc, nread,
                   attempts, llmError, prompt, llmInvoked,
                   statusChecks>>
    /\ UNCHANGED notRagVars

\* The consumer stops reading: the generator is closed where it is
\* suspended, at a yield or while it waits for the Answer Generator.  The
\* handler of stream_query (except Exception, lines 196-198) does not catch
\* GeneratorExit or CancelledError, so nothing more is yielded.
StreamCancel ==
    /\ op = "stream"
    /\ pc \in {"searching", "answered", "sources_sent", "generating",
               "error_sent", "done_sent"}
    /\ pc' = "cancelled"
    /\ UNCHANGED <<op, query, collection, max_sources, index, searchOutcome,
                   relevant, events, response, delivered, gpc, nread,
                   attempts, llmError, prompt, llmInvoked,
                   statusChecks>>
    /\ UNCHANGED notRagVars

\* A generator object that is dropped and never closed: the completion
\* stream stays open.
GeneratorFinalizeNever ==
    /\ gpc = "open"
    /\ gpc' = "open"

\* llm_service lines 99-103: the async with block of the completion stream
\* is left and the connection released.
GeneratorFinalize ==
    /\ gpc = "open"
    /\ gpc' = "released"

\* stream_query has ended or was closed while generate_streaming_response
\* is still suspended at line 114: the generator object is dropped, the
\* event loop's asynchronous-generator finalizer closes it (GeneratorExit
\* at the yield, which the handler of line 118 does not catch).
LlmFinalize ==
    /\ op = "stream"
    /\ pc \in {"cancelled", "closed"}
    /\ GeneratorFinalize
    /\ UNCHANGED <<op, pc, query, collection, max_sources, index,
                   searchOutcome, relevant, events, response, delivered,
                   nread, attempts, llmError, prompt, llmInvoked,
                   statusChecks>>
    /\ UNCHANGED notRagVars

Next ==
    \/ QuerySearch
    \/ QueryGenerate
    \/ StreamStart
    \/ StreamSearch
    \/ StreamGenerationStart
    \/ LlmOpen
    \/ LlmReadLine
    \/ LlmEndOfStream
    \/ StreamAfterError
    \/ StreamReturn
    \/ StreamCancel
    \/ LlmFinalize

Spec == Init /\ [][Next]_vars

\* The event loop runs the finalizer of a dropped generator.
LiveSpec == Spec /\ WF_vars(LlmFinalize)

----------------------------------------------------------------------------
(* DocumentService: upload, _process_document, delete_document; and        *)
(* RAGService.process_document_for_rag.  _process_document never suspends: *)
(* the coroutines it awaits contain no suspension point, so from its first *)
(* step to its return no other task runs (running names the task).         *)

PollLimit == 30

\* The page texts a file can hold; the last one is empty once cleaned.
PageTexts == {<<"a">>, <<"a", "a", "a">>, <<" ", "NUL">>}

\* An uploaded file: a PDF of 0..MaxPages pages, or a plain text.
Files ==
    [ext : {".pdf"}, pages : UNION {[1..n -> PageTexts] : n \in 0..MaxPages}]
    \cup [ext : {".txt"}, pages : {<<t>> : t \in PageTexts}]

FileName(file) == IF file.ext = ".pdf" THEN "f.pdf" ELSE "f.txt"

\* The configurations tried: the deployed one, and a small one that splits
\* the page texts of the model (the loop ends for both on every text).
Settings == {DefaultSettings, [chunk_size |-> 2, chunk_overlap |-> 1]}

\* dict.pop(key, None) and del dict[key]
Without(f, key) == [k \in DOMAIN f \ {key} |-> f[k]]

\* d[key] = value
With(f, key, value) == [k \in DOMAIN f \cup {key} |->
                            IF k = key THEN value ELSE f[k]]

DocInit ==
    /\ settings \in Settings
    /\ documents = Registry0
    /\ document_chunks = Chunks0(settings)
    /\ task = [d \in DocIds |-> NoTask]
    /\ running = "none"
    /\ ragCall = [d \in DocIds |-> NoRagCall]
    /\ usedIds = {"d0"}
    /\ ChunkIdle
    /\ RagIdle
    /\ CleanIdle
    /\ AddIdle

\* POST /documents/upload: upload_document registers the document with
\* status uploading and creates the _process_document task (lines 36-66);
\* the route then creates the process_document_for_rag task
\* (api/documents.py lines 79-90).
Upload(d) ==
    /\ running = "none"
    /\ d \notin usedIds
    /\ \E file \in Files :
          /\ documents' = With(documents, d,
                               DocInfo(FileName(file), "uploading", 0))
          /\ task' = [task EXCEPT ![d] = [NoTask EXCEPT !.pc = "scheduled",
                                                        !.file = file]]
    /\ ragCall' = [ragCall EXCEPT ![d] = [NoRagCall EXCEPT
                                              !.pc = "scheduled"]]
    /\ usedIds' = usedIds \cup {d}
    /\ UNCHANGED <<settings, document_chunks, running>>
    /\ UNCHANGED <<chunkVars, ragVars, cleanVars, addVars>>

\* _process_document starts, lines 77-83: the lookup of a deleted document
\* raises KeyError, and the handler then finds nothing to mark.
ProcessStart(d) ==
    /\ running = "none"
    /\ task[d].pc = "scheduled"
    /\ IF d \in DOMAIN documents
       THEN /\ documents' = [documents EXCEPT ![d].status = "processing"]
            /\ task' = [task EXCEPT ![d].pc = "extract"]
            /\ running' = d
       ELSE /\ task' = [task EXCEPT ![d].pc = "done", ![d].raised = TRUE]
            /\ UNCHANGED <<documents, running>>
    /\ UNCHANGED <<settings, document_chunks, ragCall, usedIds>>
    /\ UNCHANGED <<chunkVars, ragVars, cleanVars, addVars>>

\* Extraction succeeds: _extract_pdf_pages gives the numbered pages (line
\* 87), _extract_text the one text (line 95).
ProcessExtract(d) ==
    /\ running = d
    /\ task[d].pc = "extract"
    /\ LET file == task[d].file
           pages == IF file.ext = ".pdf"
                    THEN [i \in 1..Len(file.pages) |-> <<i, file.pages[i]>>]
                    ELSE << <<NoPage, file.pages[1]>> >>
       IN  task' = [task EXCEPT ![d].pc = "chunk", ![d].pages = pages]
    /\ UNCHANGED <<settings, documents, document_chunks, running, ragCall,
                   usedIds>>
    /\ UNCHANGED <<chunkVars, ragVars, cleanVars, addVars>>

\* lines 88-94 for one page of a PDF, lines 96-100 for another file: the
\* text is cleaned and split, the chunks are added to the local list.
ProcessPage(d) ==
    /\ running = d
    /\ task[d].pc = "chunk"
    /\ task[d].pages # <<>>
    /\ LET page_num == Head(task[d].pages)[1]
           page_text == Head(task[d].pages)[2]
           clean == CleanText(page_text)
           page_chunks == SplitIntoChunks(clean, d, documents[d].filename,
                                          page_num, settings.chunk_size,
                                          settings.chunk_overlap)
       IN  task' = [task EXCEPT ![d].pages = Tail(@),
                                ![d].chunks = @ \o page_chunks]
    /\ UNCHANGED <<settings, documents, document_chunks, running, ragCall,
                   usedIds>>
    /\ UNCHANGED <<chunkVars, ragVars, cleanVars, addVars>>

\* lines 102-112: the chunk list is stored and the document completed.
ProcessStore(d) ==
    /\ running = d
    /\ task[d].pc = "chunk"
    /\ task[d].pages = <<>>
    /\ document_chunks' = With(document_chunks, d, task[d].chunks)
    /\ documents' = [documents EXCEPT
                        ![d].chunks_count = Len(task[d].chunks),
                        ![d].status = "completed"]
    /\ task' = [task EXCEPT ![d].pc = "done"]
    /\ running' = "none"
    /\ UNCHANGED <<settings, ragCall, usedIds>>
    /\ UNCHANGED <<chunkVars, ragVars, cleanVars, addVars>>

\* A status the handler leaves as it found it.
FailureStatusUnchanged == "processing"

\* line 117
FailureStatus == "failed"

\* A handler that puts the document back to uploading and schedules the
\* task again.
ProcessRaiseRetries(d) ==
    /\ running = d
    /\ task[d].pc \in {"extract", "chunk"}
    /\ documents' = [documents EXCEPT ![d].status = "uploading"]
    /\ task' = [task EXCEPT ![d].pc = "scheduled", ![d].pages = <<>>,
                            ![d].chunks = <<>>]
    /\ running' = "none"
    /\ UNCHANGED <<settings, document_chunks, ragCall, usedIds>>
    /\ UNCHANGED <<chunkVars, ragVars, cleanVars, addVars>>

\* Extraction, cleaning or chunking raises; the handler, lines 114-119,
\* marks the document and drops its chunk list.
ProcessRaise(d) ==
    /\ running = d
    /\ task[d].pc \in {"extract", "chunk"}
    /\ documents' = [documents EXCEPT ![d].status = FailureStatus]
    /\ document_chunks' = Without(document_chunks, d)
    /\ task' = [task EXCEPT ![d].pc = "done", ![d].raised = TRUE]
    /\ running' = "none"
    /\ UNCHANGED <<settings, ragCall, usedIds>>
    /\ UNCHANGED <<chunkVars, ragVars, cleanVars, addVars>>

\* A deletion that forgets the stored chunk list.
DeleteDocumentKeepsChunks(d) ==
    /\ running = "none"
    /\ d \in DOMAIN documents
    /\ documents' = Without(documents, d)
    /\ UNCHANGED <<settings, document_chunks, task, running, ragCall,
                   usedIds>>
    /\ UNCHANGED <<chunkVars, ragVars, cleanVars, addVars>>

\* delete_document, lines 255-277, for a registered document.
DeleteDocument(d) ==
    /\ running = "none"
    /\ d \in DOMAIN documents
    /\ documents' = Without(documents, d)
    /\ document_chunks' = Without(document_chunks, d)
    /\ UNCHANGED <<settings, task, running, ragCall, usedIds>>
    /\ UNCHANGED <<chunkVars, ragVars, cleanVars, addVars>>

\* _get_document_chunks, rag_service lines 200-213: the empty list on both
\* paths.
GetDocumentChunks(document_id) ==
    IF document_id \notin DOMAIN documents THEN <<>> ELSE <<>>

\* The call returns result, having counted n polls.
RagReturn(d, n, seen, result) ==
    ragCall' = [ragCall EXCEPT ![d].pc = "done", ![d].retry_count = n,
                               ![d].seen = seen, ![d].result = result]

PollAgainOnce(status, n) ==
    status \in {"uploading", "processing"} /\ n < 1

\* line 39: the test of the polling loop, with retry_count = n.
PollAgain(status, n) ==
    status \in {"uploading", "processing"} /\ n < PollLimit

\* process_document_for_rag from the loop test on, with retry_count = n
\* (lines 40-61): sleep again, or leave the loop and index the chunks.
RagContinue(d, n) ==
    LET status == documents[d].status
    IN  IF PollAgain(status, n)
        THEN /\ ragCall' = [ragCall EXCEPT ![d].pc = "sleeping",
                                           ![d].retry_count = n]
             /\ UNCHANGED <<index, uuids>>
        ELSE IF status # "completed"
        THEN /\ RagReturn(d, n, status, "False")
             /\ UNCHANGED <<index, uuids>>
        ELSE LET chunk_list == GetDocumentChunks(d)
             IN  IF chunk_list = <<>>
                 THEN /\ RagReturn(d, n, status, "False")
                      /\ UNCHANGED <<index, uuids>>
                 ELSE /\ index' = CollectionAdd(
                                      CreateCollection(index, "default"),
                                      "default",
                                      PrepareBatch(chunk_list, uuids))
                      /\ uuids' = uuids + Len(chunk_list)
                      /\ RagReturn(d, n, status, "True")

\* process_document_for_rag starts, lines 30-38.
RagBegin(d) ==
    /\ running = "none"
    /\ ragCall[d].pc = "scheduled"
    /\ IF d \notin DOMAIN documents
       THEN /\ RagReturn(d, 0, "missing", "False")
            /\ UNCHANGED <<index, uuids>>
       ELSE RagContinue(d, 0)
    /\ UNCHANGED <<settings, documents, document_chunks, task, running,
                   usedIds>>
    /\ UNCHANGED <<chunkVars, ragLocals, cleanVars, calls>>

\* asyncio.sleep(1) is over, lines 41-43: the document is read again (a
\* deleted one makes the loop test raise, lines 65-67) and counted.
RagWake(d) ==
    /\ running = "none"
    /\ ragCall[d].pc = "sleeping"
    /\ IF d \notin DOMAIN documents
       THEN /\ RagReturn(d, ragCall[d].retry_count + 1, "missing", "False")
            /\ UNCHANGED <<index, uuids>>
       ELSE RagContinue(d, ragCall[d].retry_count + 1)
    /\ UNCHANGED <<settings, documents, document_chunks, task, running,
                   usedIds>>
    /\ UNCHANGED <<chunkVars, ragLocals, cleanVars, calls>>

DocNext ==
    \E d \in DocIds :
        \/ Upload(d)
        \/ ProcessStart(d)
        \/ ProcessExtract(d)
        \/ ProcessPage(d)
        \/ ProcessStore(d)
        \/ ProcessRaise(d)
        \/ RagBegin(d)
        \/ RagWake(d)
        \/ DeleteDocument(d)
        \/ DeleteDocument("d0")

DocSpec == DocInit /\ [][DocNext]_vars

\* The steps of the process_document_for_rag task of document d.
RagTask(d) == RagBegin(d) \/ RagWake(d)

----------------------------------------------------------------------------
(* VectorService.add_document_chunks: two calls, for two documents.  The   *)
(* steps of the two calls are interleaved freely, which allows more than   *)
(* the event loop does (the method has no suspension point).               *)

\* The chunk list of document d handed to a call: n chunks.
ChunkList(d, n) ==
    [i \in 1..n |-> MakeChunk(d, i - 1, <<"c">> \o [k \in 1..i |-> "x"],
                              "f.txt", NoPage, 0, i + 1)]

CallDocument(c) == IF c = 1 THEN "d1" ELSE "d2"

\* The collection holds what earlier calls stored; each call is given a
\* collection name and the chunks of its document.
AddInit ==
    /\ \E n \in 0..1 :
          /\ index = [c \in {"default"} |-> [i \in 1..n |-> StoredItem(i)]]
          /\ uuids = n
    /\ \E names \in [CallIds -> Collections],
          sizes \in [CallIds -> 1..MaxChunks] :
          calls = [c \in CallIds |->
                      [pc |-> "start", name |-> names[c],
                       chunks |-> ChunkList(CallDocument(c), sizes[c]),
                       batch |-> <<>>, result |-> "none"]]
    /\ RagQuiet
    /\ ChunkIdle
    /\ CleanIdle
    /\ DocIdle

\* lines 46-63: get_collection (a missing collection raises, lines 84-86)
\* and the ids, documents and metadatas.
AddPrepare(c) ==
    /\ calls[c].pc = "start"
    /\ IF calls[c].name \in DOMAIN index
       THEN /\ calls' = [calls EXCEPT
                            ![c].pc = "prepared",
                            ![c].batch = PrepareBatch(calls[c].chunks, uuids)]
            /\ uuids' = uuids + Len(calls[c].chunks)
       ELSE /\ calls' = [calls EXCEPT ![c].pc = "done",
                                      ![c].result = "False"]
            /\ UNCHANGED uuids
    /\ UNCHANGED index
    /\ UNCHANGED <<chunkVars, ragLocals, cleanVars, docVars>>

\* lines 66-71: the embeddings are computed, or encode raises.
AddEmbed(c) ==
    /\ calls[c].pc = "prepared"
    /\ \E ok \in BOOLEAN :
          calls' = IF ok THEN [calls EXCEPT ![c].pc = "embedded"]
                   ELSE [calls EXCEPT ![c].pc = "done",
                                      ![c].result = "False"]
    /\ UNCHANGED <<index, uuids>>
    /\ UNCHANGED <<chunkVars, ragLocals, cleanVars, docVars>>

\* lines 74-82: collection.add and return True, or add raises (84-86).
AddStore(c) ==
    /\ calls[c].pc = "embedded"
    /\ \E ok \in BOOLEAN :
          IF ok
          THEN /\ index' = CollectionAdd(index, calls[c].name,
                                         calls[c].batch)
               /\ calls' = [calls EXCEPT ![c].pc = "done",
                                         ![c].result = "True"]
          ELSE /\ calls' = [calls EXCEPT ![c].pc = "done",
                                         ![c].result = "False"]
               /\ UNCHANGED index
    /\ UNCHANGED uuids
    /\ UNCHANGED <<chunkVars, ragLocals, cleanVars, docVars>>

AddNext == \E c \in CallIds : AddPrepare(c) \/ AddEmbed(c) \/ AddStore(c)

AddSpec == AddInit /\ [][AddNext]_vars

----------------------------------------------------------------------------
(* The streaming protocol *)

\* The fragment carries the error tag.
ErrorTagged(f) == StartsWith(f, ErrPrefix)

\* One token event per fragment, in order.
TokenEvents(fs) == [i \in 1..Len(fs) |-> TokenEvent(fs[i])]

\* The three events before the first fragment on the path with sources.
Preamble == <<SearchingEvent, SourcesEvent(relevant), GeneratingEvent>>

StreamClosed == op = "stream" /\ pc = "closed"

\* The positions of events that end the stream for its consumer: done,
\* error, and the answer event with its completion marker.
Terminals(evs) ==
    {i \in 1..Len(evs) :
        \/ evs[i].type \in {"done", "error"}
        \/ evs[i].type = "answer" /\ evs[i].done}

\* C1: chunks were retrieved and the k-th fragment of the generator is
\* error-tagged: the stream is exactly searching, sources, generating, the
\* tokens of the k-1 fragments before it, error; no done follows the error.
C1_ErrorMidStream ==
    (/\ StreamClosed
     /\ relevant # <<>>
     /\ delivered # <<>>
     /\ ErrorTagged(delivered[Len(delivered)]))
    => events = Preamble
                \o TokenEvents(SubSeq(delivered, 1, Len(delivered) - 1))
                \o <<ErrorEvent(delivered[Len(delivered)])>>

\* C2: a finished stream holds exactly one terminal event, done or error but
\* not both, and that event is the last one.
C2_OneTerminalEvent ==
    StreamClosed => Terminals(events) = {Len(events)}

\* C3: chunks were retrieved and no fragment f1..fn of the generator is
\* error-tagged: the stream is exactly searching, sources, generating,
\* token(f1), ..., token(fn), done.
C3_StreamOrdering ==
    (/\ StreamClosed
     /\ relevant # <<>>
     /\ \A i \in 1..Len(delivered) : ~ErrorTagged(delivered[i]))
    => events = Preamble \o TokenEvents(delivered) \o <<DoneEvent>>

C3_Witness ==
    /\ StreamClosed
    /\ relevant # <<>>
    /\ Len(delivered) >= 2
    /\ delivered[1] = delivered[2]
    /\ \A i \in 1..Len(delivered) : ~ErrorTagged(delivered[i])
    /\ events[Len(events)].type = "done"

\* C4: no token event follows an error event.
C4_NoTokenAfterError ==
    \A i, j \in 1..Len(events) :
        (i < j /\ events[i].type = "error") => events[j].type # "token"

\* An error event was emitted for a generated fragment while the completion
\* stream was still open with lines left to read, and the stream finished.
C4_Witness ==
    /\ StreamClosed
    /\ gpc = "open"
    /\ nread < MaxLines
    /\ \E i \in 1..Len(events) : events[i].type = "error"
    /\ \E i \in 1..Len(events) : events[i].type = "token"

\* C6: nothing was retrieved: the stream is exactly the searching event and
\* one answer event with the fallback text and the completion marker; no
\* sources, generating, token or done event, and the Answer Generator is
\* never invoked.
C6_StreamFallback ==
    (op = "stream" /\ searchOutcome # "none" /\ relevant = <<>>)
    => /\ Len(events) = 2
       /\ events[1].type = "sources_search"
       /\ events[2].type = "answer"
       /\ events[2].content = StreamFallback
       /\ events[2].done
       /\ llmInvoked = 0
       /\ gpc = "new"

C6_Witness ==
    /\ StreamClosed
    /\ searchOutcome = "ok"
    /\ collection \in DOMAIN index
    /\ index[collection] = <<>>
    /\ relevant = <<>>

----------------------------------------------------------------------------
(* The single-shot query *)

QueryReturned == op = "query" /\ pc = "returned"

\* The response has the fields of ChatResponse.
WellFormed(r) ==
    /\ r.kind = "response"
    /\ {"answer", "sources", "model_info", "tokens_used"} \subseteq DOMAIN r

\* The answer states that an error occurred and model_info describes it.
IsErrorResponse(r) ==
    /\ r.answer[1] = ErrorAnswerPrefix
    /\ r.sources = <<>>
    /\ "error" \in DOMAIN r.model_info
    /\ r.answer[2] = r.model_info.error

\* C5: the collection does not exist or nothing was retrieved: query returns
\* the fallback answer with no sources and chunks_used 0, and the Answer
\* Generator is never invoked.
C5_QueryFallback ==
    (op = "query" /\ searchOutcome # "none" /\ relevant = <<>>)
    => /\ pc = "returned"
       /\ response.answer = FallbackAnswer
       /\ response.sources = <<>>
       /\ response.model_info.chunks_used = 0
       /\ llmInvoked = 0
       /\ attempts = 0

C5_Witness ==
    /\ QueryReturned
    /\ searchOutcome = "no_collection"
    /\ response.answer = FallbackAnswer

\* C7: query never lets an exception out and always returns a well-formed
\* ChatResponse; if generation failed, the answer states the error, sources
\* is empty and model_info carries the error description.
C7_QueryNeverRaises ==
    /\ pc # "raised"
    /\ QueryReturned => WellFormed(response)
    /\ (QueryReturned /\ llmError # "none")
       => (IsErrorResponse(response) /\ response.model_info.error = llmError)

C7_Witness ==
    /\ QueryReturned
    /\ llmError = RetryError
    /\ attempts = MaxAttempts
    /\ IsErrorResponse(response)

\* C8: the embedding of the query or the query of the index failed: query
\* returns the error response and stream_query ends with an error event.
C8_SearchFailureReported ==
    (searchOutcome \in {"embed_failed", "query_failed"})
    => /\ QueryReturned => IsErrorResponse(response)
       /\ StreamClosed
          => (/\ events[Len(events)].type = "error"
              /\ Cardinality({i \in 1..Len(events) :
                                 events[i].type = "error"}) = 1)

----------------------------------------------------------------------------
(* The chunker's cursor *)

\* C9: with 0 <= chunk_overlap < chunk_size, every loop iteration of
\* _split_into_chunks strictly increases the cursor start (so the loop
\* terminates), also when the end was moved back to a sentence terminator.
C9_CursorAdvances ==
    [][(chunk_overlap < chunk_size /\ iters' = iters + 1)
         => start' > start]_vars

\* C10: invoked with chunk_overlap >= chunk_size, the chunker rejects or
\* clamps the overlap before chunking: it never runs a loop iteration in
\* which the cursor fails to advance.
C10_OverlapRejectedOrClamped ==
    [][(chunk_overlap >= chunk_size /\ iters' = iters + 1)
         => start' > start]_vars

----------------------------------------------------------------------------
(* The chunks of one call of _split_into_chunks *)

Terminators == {".", "!", "?"}

\* The characters of s that are not whitespace, in order.
NonWs(s) == SelectSeq(s, LAMBDA c : c \notin Whitespace)

\* The chunk contents put end to end, each without the part that repeats
\* characters before prev_end, whitespace left out.
RECURSIVE Rebuilt(_, _, _)
Rebuilt(t, cs, prev_end) ==
    IF cs = <<>> THEN <<>>
    ELSE LET c == Head(cs)
             body == NonWs(c.content)
             overlap == IF c.metadata.start_pos < prev_end
                        THEN Len(NonWs(Slice(t, c.metadata.start_pos,
                                             prev_end)))
                        ELSE 0
         IN  SubSeq(body, overlap + 1, Len(body))
             \o Rebuilt(t, Tail(cs), c.metadata.end_pos)

\* C12: every chunk _split_into_chunks emits has content that is not empty
\* after trimming, and content no longer than chunk_size + 100 (in fact no
\* longer than chunk_size), for every text, chunk_size and chunk_overlap.
C12_ChunkContentBounds ==
    \A i \in 1..Len(chunks) :
        /\ \E k \in 1..Len(chunks[i].content) :
               chunks[i].content[k] \notin Whitespace
        /\ Len(chunks[i].content) <= chunk_size + BoundaryWindow
        /\ Len(chunks[i].content) <= chunk_size

C12_Witness ==
    /\ cpc = "returned"
    /\ Len(chunks) = 2
    /\ Len(chunks[1].content) = chunk_size
    /\ \E i \in 1..Len(slices) :
           /\ slices[i][2] > slices[i][1]
           /\ Strip(Slice(text, slices[i][1], slices[i][2])) = <<>>

C14_ShortTextOneChunk ==
    (Len(text) <= chunk_size /\ cpc # "idle")
    => /\ iters <= 1
       /\ (cpc = "loop" /\ iters = 1) => start >= Len(text)
       /\ cpc = "returned"
          => /\ slices = (IF text = <<>> THEN <<>>
                          ELSE << <<0, chunk_size>> >>)
             /\ chunks = (IF Strip(text) = <<>> THEN <<>>
                          ELSE << MakeChunk("d1", 0, Strip(text), "f.txt",
                                            page, 0, chunk_size) >>)

C14_Witness ==
    /\ cpc = "returned"
    /\ Len(text) = chunk_size
    /\ Len(chunks) = 1
    /\ chunks[1].chunk_index = 0
    /\ \E k \in 2..(Len(text) - 1) : text[k] \in Terminators

----------------------------------------------------------------------------
(* _clean_text *)

\* C15: _clean_text is idempotent: cleaning a cleaned text changes nothing.
C15_CleanIdempotent == (kpc = "twice") => (twice = once)

C15_Witness ==
    /\ kpc = "twice"
    /\ once # raw
    /\ \E i \in 1..Len(once) : once[i] = "\n"
    /\ \E i \in 1..Len(raw) : raw[i] = "NUL"
    /\ twice = once

----------------------------------------------------------------------------
(* Sources *)

\* The source list srcs names the chunks cs one for one, in order.
SameOrder(srcs, cs) ==
    /\ Len(srcs) = Len(cs)
    /\ \A i \in 1..Len(cs) :
          /\ srcs[i].document_id = cs[i].document_id
          /\ srcs[i].filename = cs[i].metadata.filename
          /\ srcs[i].page = cs[i].metadata.page
          /\ srcs[i].content_preview = cs[i].content
          /\ srcs[i].similarity_score = Round3(cs[i].similarity_score)

\* The context blocks of the prompt name the chunks cs one for one, in order.
ContextInOrder(messages, cs) ==
    LET context == messages[2].content[1]
    IN  /\ Len(context) = Len(cs)
        /\ \A i \in 1..Len(cs) :
              context[i].source = i /\ context[i].content = cs[i].content

\* C16: the source list of an answered query, and the sources event of a
\* stream, has one entry per retrieved chunk, in the order of retrieval,
\* which is also the order of the context blocks, whatever the scores.
C16_SourcesFollowRetrieval ==
    /\ (QueryReturned /\ relevant # <<>> /\ ~IsErrorResponse(response))
       => (SameOrder(response.sources, relevant)
           /\ ContextInOrder(prompt, relevant))
    /\ \A k \in 1..Len(events) :
          events[k].type = "sources"
          => (SameOrder(events[k].sources, relevant)
              /\ (prompt # <<>> => ContextInOrder(prompt, relevant)))

C16_Witness ==
    /\ QueryReturned
    /\ Len(relevant) = 2
    /\ Len(response.sources) = 2
    /\ relevant[1].chunk_index > relevant[2].chunk_index
    /\ relevant[1].similarity_score = relevant[2].similarity_score
    /\ relevant[1].document_id = relevant[2].document_id

----------------------------------------------------------------------------
(* Ingestion *)

\* C11: the chunk_index values of a document's stored chunk list are
\* exactly 0, 1, ..., n - 1 in order, also for a PDF of several pages.
C11_ChunkIndexContiguous ==
    \A d \in DOMAIN document_chunks :
        \A i \in 1..Len(document_chunks[d]) :
            document_chunks[d][i].chunk_index = i - 1

\* The items of the index that come from document d.
IndexedOf(d) ==
    {item \in UNION {{index[c][i] : i \in 1..Len(index[c])} :
                         c \in DOMAIN index} :
        item.metadata.document_id = d}

\* C17: once extraction or chunking has failed, the document is failed and
\* no chunk list, not even the chunks made before the failure, is stored
\* under its id or present in the index.
C17_FailureStoresNothing ==
    \A d \in DocIds :
        (task[d].raised /\ d \in DOMAIN documents)
        => /\ documents[d].status = "failed"
           /\ d \notin DOMAIN document_chunks
           /\ IndexedOf(d) = {}

C17_Witness ==
    /\ task["d1"].raised
    /\ task["d1"].chunks # <<>>
    /\ task["d1"].pages # <<>>
    /\ "d1" \in DOMAIN documents
    /\ documents["d1"].status = "failed"

\* C18: a call of process_document_for_rag that found the document
\* completed, with a non-empty stored chunk list, has handed exactly that
\* list to the index and returned True.
C18_CompletedIsIndexed ==
    \A d \in DocIds :
        (/\ ragCall[d].pc = "done"
         /\ ragCall[d].seen = "completed"
         /\ d \in DOMAIN document_chunks
         /\ document_chunks[d] # <<>>)
        => /\ ragCall[d].result = "True"
           /\ {[content |-> item.document,
                chunk_index |-> item.metadata.chunk_index] :
                   item \in IndexedOf(d)}
              = {[content |-> document_chunks[d][i].content,
                  chunk_index |-> document_chunks[d][i].chunk_index] :
                    i \in 1..Len(document_chunks[d])}

----------------------------------------------------------------------------
(* Concurrent insertion *)

\* The items of the collection "default".
Items == index["default"]

\* C19: however the steps of two add_document_chunks calls for two
\* documents are interleaved, the ids of the stored items are distinct,
\* every item carries the document_id and text of the chunk it was made
\* from, every chunk of a call that returned True is stored, and no step
\* removes or changes an item already stored.
C19_ConcurrentAddsKeepAll ==
    /\ [](/\ \A i, j \in 1..Len(Items) : i # j => Items[i].id # Items[j].id
          /\ \A i \in 1..Len(Items) :
                \/ Items[i] = StoredItem(Items[i].id)
                \/ \E c \in CallIds : \E k \in 1..Len(calls[c].batch) :
                      /\ Items[i] = calls[c].batch[k]
                      /\ Items[i].document = calls[c].chunks[k].content
                      /\ Items[i].metadata.document_id = CallDocument(c)
                      /\ Items[i].metadata.chunk_index = k - 1
          /\ \A c \in CallIds :
                (calls[c].result = "True" /\ calls[c].name = "default")
                => \A k \in 1..Len(calls[c].chunks) :
                      \E i \in 1..Len(Items) :
                          Items[i] = StoreRecord(calls[c].batch[k].id,
                                                 calls[c].chunks[k]))
    /\ [][/\ Len(Items') >= Len(Items)
          /\ \A i \in 1..Len(Items) : Items'[i] = Items[i]]_vars

C19_Witness ==
    /\ \A c \in CallIds : calls[c].result = "True" /\ Len(calls[c].chunks) = 2
    /\ Len(Items) = 5
    /\ Items[1] = StoredItem(1)
    /\ \E i, j \in 1..Len(Items) :
          /\ i < j
          /\ Items[i].id > Items[j].id
          /\ Items[i].metadata.document_id # Items[j].metadata.document_id

----------------------------------------------------------------------------
(* Queries leave the stores alone *)

\* C20: no step of query or stream_query, whether it ends in an answer, a
\* fallback, an error or a cancelled stream, changes the index, the
\* document registry or the stored chunk lists.
C20_QueriesReadOnly ==
    [][/\ index' = index
       /\ documents' = documents
       /\ document_chunks' = document_chunks]_vars

C20_Witness ==
    /\ op = "stream"
    /\ pc = "cancelled"
    /\ \E i \in 1..Len(events) : events[i].type = "token"
    /\ Len(index["default"]) >= 2
    /\ "d0" \in DOMAIN documents
    /\ document_chunks["d0"] # <<>>

----------------------------------------------------------------------------
(* Cancellation *)

\* C21: once the consumer has closed the stream, stream_query emits no
\* further event and asks the Answer Generator for nothing more (no line
\* read, no fragment delivered, no new call), and a completion stream that
\* is still open is released.
C21_CancelStopsAndReleases ==
    /\ [][pc' = "cancelled"
            => /\ events' = events
               /\ delivered' = delivered
               /\ nread' = nread
               /\ llmInvoked' = llmInvoked]_vars
    /\ [][pc = "cancelled" => pc' = "cancelled"]_vars
    /\ (pc = "cancelled" /\ gpc = "open") ~> (gpc = "released")

C21_Witness ==
    /\ op = "stream"
    /\ pc = "cancelled"
    /\ gpc = "released"
    /\ events # <<>>
    /\ events[Len(events)].type = "token"
    /\ nread < MaxLines

----------------------------------------------------------------------------
(* Input validation and the retries of the Answer Generator *)

\* C22: a query or stream_query call with an empty query string is rejected
\* before any call of the Embedding Provider, the Retrieval Index or the
\* Answer Generator: no search is made, no prompt is sent and the server
\* status is never checked.
C22_EmptyQueryRejected ==
    (query = <<>>)
    => /\ searchOutcome = "none"
       /\ llmInvoked = 0
       /\ statusChecks = 0
       /\ attempts = 0

\* C23: a query call makes at most MaxAttempts attempts at the Answer
\* Generator, one server status check before each; it returns its error
\* response only when all MaxAttempts attempts have failed, and otherwise,
\* whichever attempt succeeded, the answer built from the reply.
C23_QueryRetriesThenFails ==
    (op = "query")
    => /\ attempts <= MaxAttempts
       /\ statusChecks = attempts
       /\ (QueryReturned /\ llmInvoked > 0)
          => IF IsErrorResponse(response)
             THEN /\ attempts = MaxAttempts
                  /\ llmError = RetryError
             ELSE /\ attempts \in 1..MaxAttempts
                  /\ llmError = "none"
                  /\ \E reply \in AttemptOutcomes :
                        /\ reply.kind = "ok"
                        /\ response = AnswerResponse(LlmResponse(reply),
                                                     relevant)

\* Three attempts failed and query returned the error response.
C23_Witness ==
    /\ QueryReturned
    /\ relevant # <<>>
    /\ IsErrorResponse(response)
    /\ attempts = MaxAttempts
    /\ statusChecks = MaxAttempts

\* C24: on the streaming path a failed status check or a failed stream
\* request is tried again at least once before stream_query emits the error
\* event for it.
C24_StreamRetriesConnectivity ==
    (/\ op = "stream"
     /\ gpc = "error_yielded"
     /\ nread = 0
     /\ \E i \in 1..Len(events) : events[i].type = "error")
    => statusChecks > 1

\* The event stream_query is to emit for fragment f.
EventFor(f) == IF ErrorTagged(f) THEN ErrorEvent(f) ELSE TokenEvent(f)

\* C29: the k-th fragment received from the Answer Generator is emitted as
\* the k-th event after the preamble: an error event when its text starts
\* with "ERROR:" (also when the text was generated), else a token event with
\* exactly its text; and no fragment is received after an error-tagged one.
C29_ErrorPrefixClassifies ==
    (op = "stream")
    => /\ \A k \in 1..Len(delivered) :
             /\ Len(events) >= Len(Preamble) + k
             /\ events[Len(Preamble) + k] = EventFor(delivered[k])
       /\ \A k \in 1..(Len(delivered) - 1) : ~ErrorTagged(delivered[k])

\* A line of generated text that starts with "ERROR:" was emitted as an
\* error event after a token, with lines of the completion left unread.
C29_Witness ==
    /\ op = "stream"
    /\ gpc = "open"
    /\ nread < MaxLines
    /\ Len(delivered) = 2
    /\ delivered[2] = ErrPrefix \o <<"x">>
    /\ events[Len(Preamble) + 1].type = "token"
    /\ events[Len(Preamble) + 2] = ErrorEvent(delivered[2])

----------------------------------------------------------------------------
(* The polling of process_document_for_rag and the document lifecycle *)

\* C25: process_document_for_rag polls the status at most PollLimit times
\* and then returns, never raising. A call that has not returned can always
\* take its next step when no other task holds the event loop, each step
\* after a sleep is one more counted poll, and the count never exceeds
\* PollLimit. The call returns False when the document is unknown or was
\* deleted while polled, when it ended failed, and when it is still
\* uploading or processing after the last poll (and only then is an
\* unfinished document given up). The index is written only by a call that
\* saw the status completed.
C25_PollingTerminates ==
    /\ [](\A d \in DocIds :
             /\ ragCall[d].retry_count <= PollLimit
             /\ (ragCall[d].pc \in {"scheduled", "sleeping"}
                 /\ running = "none")
                => ENABLED RagTask(d)
             /\ ragCall[d].pc = "done"
                => /\ ragCall[d].result \in {"True", "False"}
                   /\ ragCall[d].seen \in {"missing", "failed", "uploading",
                                           "processing"}
                      => ragCall[d].result = "False"
                   /\ ragCall[d].seen \in {"uploading", "processing"}
                      => ragCall[d].retry_count = PollLimit
                   /\ ragCall[d].result = "True"
                      => ragCall[d].seen = "completed")
    /\ [][\A d \in DocIds :
             (ragCall[d].pc = "sleeping" /\ ragCall'[d] # ragCall[d])
             => /\ ragCall'[d].retry_count = ragCall[d].retry_count + 1
                /\ ragCall'[d].pc \in {"sleeping", "done"}]_vars
    /\ [][index' # index
            => \E d \in DocIds : /\ ragCall[d].pc # "done"
                                 /\ ragCall'[d].pc = "done"
                                 /\ ragCall'[d].seen = "completed"]_vars

\* The document was still uploading at the last poll and the call returned
\* False.
C25_Witness ==
    /\ ragCall["d1"].pc = "done"
    /\ ragCall["d1"].retry_count = PollLimit
    /\ ragCall["d1"].seen = "uploading"
    /\ ragCall["d1"].result = "False"

\* The order of the statuses: a document only moves to a higher rank.
StatusRank(status) ==
    CASE status = "uploading" -> 0
      [] status = "processing" -> 1
      [] status \in {"completed", "failed"} -> 2

AllDocIds == DocIds \cup DOMAIN Registry0

\* What is left to do for the _process_document task of d.
TaskMeasure(t) ==
    CASE t.pc = "extract" -> <<2, 0>>
      [] t.pc = "chunk" -> <<1, Len(t.pages)>>
      [] OTHER -> <<0, 0>>

MeasureLess(a, b) == a[1] < b[1] \/ (a[1] = b[1] /\ a[2] < b[2])

C28_ChunksIffCompleted ==
    (running = "none")
    => \A d \in AllDocIds :
          /\ d \in DOMAIN document_chunks
             <=> (d \in DOMAIN documents
                  /\ documents[d].status = "completed")
          /\ d \in DOMAIN document_chunks
             => documents[d].chunks_count = Len(document_chunks[d])

\* A document that was processed to the end and then deleted.
C28_Witness ==
    /\ running = "none"
    /\ task["d1"].pc = "done"
    /\ ~task["d1"].raised
    /\ task["d1"].chunks # <<>>
    /\ "d1" \notin DOMAIN documents
    /\ "d1" \notin DOMAIN document_chunks

----------------------------------------------------------------------------
(* The boundary window of the chunker *)

\* The end the chunk that starts at s is to have: the position after the
\* latest terminator p with end - 100 <= p < end and p > s when the
\* candidate end lies before the end of the text, else the candidate end.
ClaimedEnd(t, s, size) ==
    LET end == s + size
        found == {q \in 0..(Len(t) - 1) :
                    /\ t[q + 1] \in Terminators
                    /\ end - BoundaryWindow <= q
                    /\ q < end
                    /\ q > s}
    IN  IF end < Len(t) /\ found # {} THEN SetMax(found) + 1 ELSE end

\* C26: every iteration of _split_into_chunks ends its chunk where the
\* latest terminator of the last 100 characters before start + S puts it,
\* for every S, also when S is smaller than the window.
C26_EndAtLatestTerminator ==
    \A i \in 1..Len(slices) :
        slices[i][2] = ClaimedEnd(text, slices[i][1], chunk_size)

\* The least advance of the cursor under the deployed configuration.
MinAdvance == ChunkSizeDefault - BoundaryWindow - ChunkOverlapDefault + 1

Deployed ==
    /\ chunk_size = ChunkSizeDefault
    /\ chunk_overlap = ChunkOverlapDefault

\* C30: with chunk_size 800 and chunk_overlap 200 every iteration moves
\* start forward by at least 501 characters, so start is never negative,
\* the number of iterations is bounded by the length of the text and the
\* loop is left.
C30_DeployedAdvance ==
    /\ [](Deployed => /\ start >= 0
                      /\ start >= iters * MinAdvance
                      /\ (cpc = "loop" /\ start < Len(text))
                         => iters < MaxIters)
    /\ [][(Deployed /\ iters' = iters + 1)
            => start' >= start + MinAdvance]_vars

\* An iteration that ended its chunk at the earliest terminator of the
\* window and advanced by exactly 501.
C30_Witness ==
    /\ Deployed
    /\ iters = 1
    /\ start = MinAdvance
    /\ slices[1][2] < Len(text)

====
